---- MODULE Spec2Model ----
(***************************************************************************)
(* Verification model of the DynamO event-driven engine:                   *)
(*   - magnet::math::Polynomial, its algebra, constructors, bounds and     *)
(*     closed-form root solvers                                            *)
(*     (src/src/magnet/magnet/math/polynomial.hpp);                        *)
(*   - coil::Attribute's upload statistics                                 *)
(*     (src/src/coil/coil/RenderObj/Attribute.hpp);                        *)
(*   - OPTinkerXYZ's numbered frame files                                  *)
(*     (src/src/dynamo/dynamo/outputplugins/tickerproperty/tinkerxyz.cpp); *)
(*   - dynamo::Simulation's driver loop                                    *)
(*     (src/src/dynamo/dynamo/simulation.cpp) together with the event      *)
(*     calendar it drives.                                                 *)
(*                                                                         *)
(* Numbers.  The solvers work on doubles.  The model computes in exact     *)
(* arithmetic: a rational is a pair <<n, d>> in lowest terms with d > 0,   *)
(* and a value of a solver is an element a + b*sqrt(m) of the quadratic    *)
(* field generated by the square-free part m of the discriminant, with a   *)
(* flag for the non-finite results (inf, nan) of a division by zero.       *)
(***************************************************************************)
EXTENDS Integers, Sequences, FiniteSets, TLC

VARIABLES
  \* ---- polynomial solver ----
  f,        \* coefficients of the polynomial, lowest order first (Len = Order+1)
  f1neg,    \* sign bit of f[2] (the coefficient c1) as std::copysign reads it
  rad,      \* square-free radicand m of the values held in roots
  roots,    \* the StackVector returned by solve_roots
  ppc,      \* "input" before solve_roots has run, "solved" after
  \* ---- Simulation (simulation.cpp) ----
  status,          \* Simulation::status
  eventCount,      \* Simulation::eventCount
  endEventCount,   \* Simulation::endEventCount
  nextPrintEvent,  \* Simulation::nextPrintEvent
  outputPlugins,   \* Simulation::outputPlugins
  sysTime,         \* Simulation::dSysTime
  pc,              \* "idle", or "loop" inside runSimulation's while loop
  silentMode,      \* runSimulation's parameter
  nextPrint,       \* runSimulation's local nextPrint
  lastError,       \* the exception that left runSimulation, NoError if none
  \* ---- event calendar driven by ptrScheduler->runNextEvent() ----
  calendar,        \* the set of outstanding event records
  \* ---- history ----
  invocations,     \* number of calls of runNextEvent so far
  stepOutcome,     \* what the last call of runNextEvent did
  shutdownRequested, \* simShutdown() has been called
  rejected, \* the call that last left by its state check, "none" if the
            \* last call was accepted
  \* ---- polynomial algebra (polynomial.hpp) ----
  aop,      \* the operation applied to the operands
  pa,       \* first operand: a Polynomial, lowest order first
  pb,       \* second operand: a Polynomial
  sr,       \* scalar operand
  ilist,    \* std::initializer_list given to the list constructor
  target,   \* Order of the Polynomial being constructed
  debug,    \* the build defines MAGNET_DEBUG
  tmin,     \* max_abs_val's lower bound
  tmax,     \* max_abs_val's upper bound
  res,      \* the Polynomial (or value) the operation produced
  thrown,   \* the exception the operation raised, "none" if none
  written,  \* the indices of the result's array the operation wrote
  apc,      \* "input" before the operation has run, "done" after
  \* ---- coil::Attribute (Attribute.hpp) ----
  components,   \* Attribute::_components
  buffer,       \* the inherited std::vector<GLfloat>
  minVals,      \* Attribute::_minVals
  maxVals,      \* Attribute::_maxVals
  dataUpdates,  \* Attribute::_dataUpdates
  glDataSize,   \* _glData.size(): the floats held by the OpenGL buffer
  queuedTasks,  \* the initGLData callbacks queued in the GL context
  \* ---- OPTinkerXYZ (tinkerxyz.cpp) ----
  frameCount,       \* OPTinkerXYZ::frameCount
  max_frame_count,  \* OPTinkerXYZ::max_frame_count (option MaxFrames)
  fileOutput,       \* OPTinkerXYZ::fileOutput (options File, NoFile)
  gslBuild,         \* the build defines DYNAMO_GSL
  framesWritten,    \* the frame numbers of the .xyz files written, in order
  tickerCalls,      \* the calls of ticker() made so far
  tpc               \* "constructed" before initialise(), "ticking" after

algVars == <<aop, pa, pb, sr, ilist, target, debug, tmin, tmax, res, thrown,
             written, apc>>

attrVars == <<components, buffer, minVals, maxVals, dataUpdates, glDataSize,
              queuedTasks>>

tinkerVars == <<frameCount, max_frame_count, fileOutput, gslBuild,
                framesWritten, tickerCalls, tpc>>

polyVars == <<f, f1neg, rad, roots, ppc>>

simVars == <<status, eventCount, endEventCount, nextPrintEvent, outputPlugins,
             sysTime, pc, silentMode, nextPrint, lastError, calendar,
             invocations, stepOutcome, shutdownRequested, rejected>>

vars == <<f, f1neg, rad, roots, ppc, status, eventCount, endEventCount,
          nextPrintEvent, outputPlugins, sysTime, pc, silentMode, nextPrint,
          lastError, calendar, invocations, stepOutcome,
          shutdownRequested, rejected, aop, pa, pb, sr, ilist, target, debug, tmin,
          tmax, res, thrown, written, apc, components, buffer, minVals,
          maxVals, dataUpdates, glDataSize, queuedTasks, frameCount,
          max_frame_count, fileOutput, gslBuild, framesWritten, tickerCalls,
          tpc>>

\* Everything but the Simulation, and everything but the root solver.
nonSimVars == <<polyVars, algVars, attrVars, tinkerVars>>

nonRootVars == <<simVars, algVars, attrVars, tinkerVars>>

(***************************************************************************)
(* Bounds of the model.                                                    *)
(***************************************************************************)
MaxCoeff == 3

\* Number of particles of the simulation.
NumParticles == 2

\* Largest absolute time a prediction may carry; later ones are "no event".
MaxTime == 2

\* Largest delay between the current time and a predicted event.
MaxDt == 1

\* The configured endEventCount.
MaxEvents == 2

\* Largest number of calls of runNextEvent followed by the model.
MaxInvocations == MaxEvents + 1

\* Largest number of output plugins added.
MaxPlugins == 1

\* The configured eventPrintInterval.
EventPrintInterval == 1

\* Largest absolute value of a coefficient given to the algebra.
MaxTerm == 1

\* Largest order of a polynomial given to, or produced by, the algebra.
MaxOrder == 2

\* Largest absolute value of an end of max_abs_val's interval.
MaxT == 2

\* Largest number of components of an Attribute given to the model.
MaxComponents == 2

\* Largest number of elements of an Attribute.
MaxElements == 2

\* Largest value the host writes into an Attribute's buffer.
MaxValue == 1

\* Largest number of runs of initGLData followed.
MaxUpdates == 2

\* Largest configured MaxFrames of the TinkerXYZ plugin.
MaxFrames == 2

\* Largest number of calls of OPTinkerXYZ::ticker followed.
MaxTickers == 3

Coeffs == (-MaxCoeff)..MaxCoeff

(***************************************************************************)
(* Exact rational arithmetic.                                              *)
(***************************************************************************)
Abs(x) == IF x < 0 THEN -x ELSE x

RECURSIVE GCD(_, _)
GCD(a, b) == IF b = 0 THEN a ELSE GCD(b, a % b)

RNorm(n, d) ==
  LET g == GCD(Abs(n), Abs(d))
      s == IF d < 0 THEN -1 ELSE 1
  IN  <<(s * n) \div g, (s * d) \div g>>

RInt(n) == <<n, 1>>
RZero == <<0, 1>>
RAdd(x, y) == RNorm(x[1] * y[2] + y[1] * x[2], x[2] * y[2])
RNeg(x) == <<-x[1], x[2]>>
RSub(x, y) == RAdd(x, RNeg(y))
RMul(x, y) == RNorm(x[1] * y[1], x[2] * y[2])
RInv(x) == RNorm(x[2], x[1])
RIsZero(x) == x[1] = 0

(***************************************************************************)
(* Values a + b*sqrt(m); fin = FALSE is a non-finite double.               *)
(***************************************************************************)
QVal(a, b) == [a |-> a, b |-> b, fin |-> TRUE]
QNaN == [a |-> RZero, b |-> RZero, fin |-> FALSE]
QInt(n) == QVal(RInt(n), RZero)
QRat(r) == QVal(r, RZero)
QIsZero(x) == x.fin /\ RIsZero(x.a) /\ RIsZero(x.b)

QAdd(x, y) ==
  IF ~x.fin \/ ~y.fin THEN QNaN
  ELSE QVal(RAdd(x.a, y.a), RAdd(x.b, y.b))

QNeg(x) == IF ~x.fin THEN QNaN ELSE QVal(RNeg(x.a), RNeg(x.b))

QMul(m, x, y) ==
  IF ~x.fin \/ ~y.fin THEN QNaN
  ELSE QVal(RAdd(RMul(x.a, y.a), RMul(RMul(x.b, y.b), RInt(m))),
            RAdd(RMul(x.a, y.b), RMul(x.b, y.a)))

\* x / y: multiply by the conjugate of y; the norm a^2 - m*b^2 of a non-zero
\* y is non-zero because m is square-free (or b = 0 when m = 1).
QDiv(m, x, y) ==
  IF ~x.fin \/ ~y.fin \/ QIsZero(y) THEN QNaN
  ELSE LET norm == RSub(RMul(y.a, y.a), RMul(RMul(y.b, y.b), RInt(m)))
           conj == QVal(y.a, RNeg(y.b))
           num  == QMul(m, x, conj)
       IN  QVal(RMul(num.a, RInv(norm)), RMul(num.b, RInv(norm)))

\* The largest s with s*s dividing n (n > 0).
SquarePart(n) ==
  CHOOSE s \in 1..n :
    /\ n % (s * s) = 0
    /\ \A t \in (s + 1)..n : n % (t * t) # 0

\* The square-free radicand of the field that holds sqrt(n).
Radicand(n) == IF n <= 0 THEN 1 ELSE n \div (SquarePart(n) * SquarePart(n))

\* std::sqrt(n) for an integer n > 0.
QSqrt(n) ==
  IF Radicand(n) = 1 THEN QInt(SquarePart(n))
  ELSE QVal(RZero, RInt(SquarePart(n)))

\* std::copysign(x, y): the magnitude of x (x >= 0 here) with the sign bit of y.
CopySign(x, signbit) == IF signbit THEN QNeg(x) ELSE x

(***************************************************************************)
(* Polynomial<Order>: the sequence of its Order+1 coefficients.            *)
(***************************************************************************)
Order(p) == Len(p) - 1

\* Mutant of LowerOrder: copies [begin+1, end), dropping the constant term.
LowerOrderTail(p) == SubSeq(p, 2, Len(p))

\* Polynomial(const Polynomial<Order+1>&): std::copy(begin, end-1, ...).
LowerOrder(p) == SubSeq(p, 1, Len(p) - 1)

\* Polynomial::operator(): Horner's scheme from the highest order down;
\* Horner(m, p, x, i, sum) is the loop from index i (1-based) down to 1.
RECURSIVE Horner(_, _, _, _, _)
Horner(m, p, x, i, sum) ==
  IF i < 1 THEN sum
  ELSE Horner(m, p, x, i - 1, QAdd(QMul(m, sum, x), QInt(p[i])))

Eval(m, p, x) == Horner(m, p, x, Len(p) - 1, QInt(p[Len(p)]))

\* solve_roots(Polynomial<0>)
SolveRoots0(p) == <<>>

\* Mutant of SolveRoots1: the root without its minus sign.
SolveRoots1Pos(p) ==
  IF p[2] # 0 THEN <<QRat(RNorm(p[1], p[2]))>> ELSE <<>>

\* solve_roots(Polynomial<1>)
SolveRoots1(p) ==
  IF p[2] # 0 THEN <<QRat(RNorm(-p[1], p[2]))>> ELSE <<>>

\* Mutant of Discriminant: the product added instead of subtracted.
DiscriminantPlus(p) == p[2] * p[2] + 4 * p[3] * p[1]

\* arg = f[1]*f[1] - 4*f[2]*f[0]
Discriminant(p) == p[2] * p[2] - 4 * p[3] * p[1]

\* Mutant of Root1: the textbook formula (-f[1] + sqrt(arg)) / (2*f[2]).
Root1Textbook(p, signbit) ==
  LET m == Radicand(Discriminant(p))
  IN  QDiv(m, QAdd(QNeg(QInt(p[2])), QSqrt(Discriminant(p))), QInt(2 * p[3]))

\* root1 = -(f[1] + copysign(sqrt(arg), f[1])) / (2*f[2])
Root1(p, signbit) ==
  LET m == Radicand(Discriminant(p))
  IN  QDiv(m, QNeg(QAdd(QInt(p[2]), CopySign(QSqrt(Discriminant(p)), signbit))),
           QInt(2 * p[3]))

\* Mutant of Root2: f[0] / root1, the leading coefficient forgotten.
Root2NoLead(p, root1) ==
  LET m == Radicand(Discriminant(p))
  IN  QDiv(m, QInt(p[1]), root1)

\* root2 = f[0] / (f[2]*root1)
Root2(p, root1) ==
  LET m == Radicand(Discriminant(p))
  IN  QDiv(m, QInt(p[1]), QMul(m, QInt(p[3]), root1))

\* solve_roots(Polynomial<2>)
SolveRoots2(p, signbit) ==
  IF p[3] = 0 THEN SolveRoots1(LowerOrder(p))
  ELSE IF Discriminant(p) < 0 THEN <<>>
  ELSE IF Discriminant(p) = 0 THEN <<QRat(RNorm(-p[2], 2 * p[3]))>>
  ELSE <<Root1(p, signbit), Root2(p, Root1(p, signbit))>>

(***************************************************************************)
(* Simulation: lifecycle status and the fields the driver loop uses.       *)
(***************************************************************************)
\* The lifecycle states in their declared order.
Statuses == <<"START", "CONFIG_LOADED", "INITIALISED", "PRODUCTION", "ERROR">>

StatusRank(s) == CHOOSE i \in 1..Len(Statuses) : Statuses[i] = s

Particles == 1..NumParticles

\* The predicted time of "no event".
Infinity == MaxTime + 1

\* The configured time horizon of the driver.
Horizon == MaxTime - 1

PluginNames == {"Misc"}

(***************************************************************************)
(* Event records and the calendar.  A record names its particle, the       *)
(* predicted absolute time, the event kind and, for a collision, the       *)
(* partner.  Predictions are recomputed eagerly for the particles an event *)
(* changes, so no stale record outlives the step that made it stale.       *)
(***************************************************************************)
NoEvent(id) == [id |-> id, time |-> Infinity, kind |-> "none", partner |-> 0]

\* Mutant of PredTimes: a root taken relative to time zero, not to now.
PredTimesFromZero(now) == {t \in 0..MaxTime : t <= MaxDt}

\* The admissible event times seen from time now: never in the past.
PredTimes(now) == {t \in now..MaxTime : t <= now + MaxDt}

\* neighbors_of(id): the particles are neighbours along a ring.
NeighborsOf(id) == {(id % NumParticles) + 1} \ {id}

\* Event Predictor: the candidates it may reduce to for particle id at now.
Predictions(id, now) ==
  {[id |-> id, time |-> t, kind |-> "collision", partner |-> j] :
      t \in PredTimes(now), j \in NeighborsOf(id)}
  \cup {[id |-> id, time |-> t, kind |-> "global", partner |-> 0] :
      t \in PredTimes(now)}
  \cup {NoEvent(id)}

KindRank(k) ==
  IF k = "collision" THEN 0 ELSE IF k = "global" THEN 1 ELSE 2

\* Order of extraction: time, then participant id, then event-kind priority.
Earlier(r, q) ==
  \/ r.time < q.time
  \/ r.time = q.time /\ r.id < q.id
  \/ r.time = q.time /\ r.id = q.id /\ KindRank(r.kind) <= KindRank(q.kind)

\* peekMinimum()
PeekMinimum(cal) == CHOOSE r \in cal : \A q \in cal : Earlier(r, q)

\* fire(record): the record leaves the calendar.
Fire(cal, rec) == cal \ {rec}

\* Mutant of Schedule: the fresh record is added beside the old one.
ScheduleKeepOld(cal, rec) == cal \cup {rec}

\* schedule(id): the fresh record replaces the particle's record.
Schedule(cal, rec) == {r \in cal : r.id # rec.id} \cup {rec}

\* invalidate + reschedule of every particle in DOMAIN fresh.
RECURSIVE ScheduleAll(_, _, _)
ScheduleAll(cal, fresh, ids) ==
  IF ids = {} THEN cal
  ELSE LET id == CHOOSE i \in ids : TRUE
       IN  ScheduleAll(Schedule(cal, fresh[id]), fresh, ids \ {id})

\* The particles whose state an event changes.
Participants(rec) ==
  IF rec.kind = "collision" THEN {rec.id, rec.partner} ELSE {rec.id}

\* The fresh predictions for the particles in ids at time now.
FreshPredictions(ids, now) ==
  {fr \in [ids -> UNION {Predictions(i, now) : i \in ids}] :
      \A i \in ids : fr[i] \in Predictions(i, now)}

\* The driver stops on a minimum that is "no event" or beyond the horizon.
NothingToRun(rec) == rec.time = Infinity \/ rec.time > Horizon

(***************************************************************************)
(* Exceptions.                                                             *)
(***************************************************************************)
NoWhat == [source |-> "none", time |-> Infinity, kind |-> "none", ids |-> {}]

NoError == [raised |-> FALSE, eventCount |-> 0, what |-> NoWhat]

\* A fault whose message names the event's time, kind and participants.
EventFault(rec) ==
  [source |-> "event", time |-> rec.time, kind |-> rec.kind,
   ids |-> Participants(rec)]

\* A fault whose message names no event, such as setTickerPeriod's
\* "Could not find system ticker (maybe not required?)".
OpaqueFault == [source |-> "event", time |-> Infinity, kind |-> "none", ids |-> {}]

\* What cep.what() may hold when the execution of event rec throws.
EventFaults(rec) == {EventFault(rec), OpaqueFault}

PluginFault == [source |-> "plugin", time |-> Infinity, kind |-> "none", ids |-> {}]

\* Mutant of Rethrow: the message keeps the event count, not cep.what().
RethrowCountOnly(ec, what) == [raised |-> TRUE, eventCount |-> ec, what |-> NoWhat]

\* catch (std::exception& cep): M_throw() << "While executing event "
\*                                        << eventCount << cep.what()
Rethrow(ec, what) == [raised |-> TRUE, eventCount |-> ec, what |-> what]

(***************************************************************************)
(* Simulation's operations.                                                *)
(***************************************************************************)
\* Mutant of ShutdownCount: one event too many is left to run.
ShutdownCountNext(ec) == ec + 1

\* simShutdown(): nextPrintEvent = endEventCount = eventCount
ShutdownCount(ec) == ec

\* Mutant of LoopCond: the comparison made inclusive.
LoopCondInclusive(ec, end) == ec <= end

\* while (eventCount < endEventCount)
LoopCond(ec, end) == ec < end

\* (eventCount >= nextPrint) && !silentMode && outputPlugins.size()
PeriodicDue(ec, np, silent, plugins) == ec >= np /\ ~silent /\ Len(plugins) > 0

InitSim ==
  /\ status = "START"
  /\ eventCount = 0
  /\ endEventCount = MaxEvents
  /\ nextPrintEvent = MaxEvents
  /\ outputPlugins = <<>>
  /\ sysTime = 0
  /\ pc = "idle"
  /\ silentMode = FALSE
  /\ nextPrint = 0
  /\ lastError = NoError
  /\ calendar = {}
  /\ invocations = 0
  /\ stepOutcome = "none"
  /\ shutdownRequested = FALSE
  /\ rejected = "none"

\* The solver's variables while the simulation runs.
PolyIdle ==
  /\ f = <<0>>
  /\ f1neg = FALSE
  /\ rad = 1
  /\ roots = <<>>
  /\ ppc = "input"

\* The algebra's variables while another component runs.
AlgIdle ==
  /\ aop = "none"
  /\ pa = <<0>>
  /\ pb = <<0>>
  /\ sr = 0
  /\ ilist = <<>>
  /\ target = 0
  /\ debug = FALSE
  /\ tmin = 0
  /\ tmax = 0
  /\ res = <<>>
  /\ thrown = "none"
  /\ written = {}
  /\ apc = "input"

\* The Attribute's variables while another component runs.
AttrIdle ==
  /\ components = 1
  /\ buffer = <<>>
  /\ minVals = <<>>
  /\ maxVals = <<>>
  /\ dataUpdates = 0
  /\ glDataSize = 0
  /\ queuedTasks = 0

\* Mutant of ConfigLoadedThrows: the configuration loads in any status.
ConfigLoadedThrowsNever(st) == FALSE

\* The TinkerXYZ plugin's variables while another component runs.
TinkerIdle ==
  /\ frameCount = 0
  /\ max_frame_count = 0
  /\ fileOutput = TRUE
  /\ gslBuild = FALSE
  /\ framesWritten = <<>>
  /\ tickerCalls = 0
  /\ tpc = "constructed"

\* Simulation::configLoaded: "if (status != START) M_throw()".
ConfigLoadedThrows(st) == st # "START"

\* Simulation::addOutputPlugin: "if (status >= INITIALISED) M_throw()".
AddOutputPluginThrows(st) == StatusRank(st) >= StatusRank("INITIALISED")

\* Simulation::runSimulation:
\* "if (status != INITIALISED && status != PRODUCTION) M_throw()".
RunSimulationThrows(st) == st # "INITIALISED" /\ st # "PRODUCTION"

\* Simulation::outputData:
\* "if (status < INITIALISED || status == ERROR) M_throw()".
OutputDataThrows(st) ==
  StatusRank(st) < StatusRank("INITIALISED") \/ st = "ERROR"

\* Mutant of StatusOnRun: runSimulation leaves the status as it found it.
StatusOnRunKept(st) == st

\* Simulation::runSimulation: "status = PRODUCTION".
StatusOnRun(st) == "PRODUCTION"

\* A call leaves by the M_throw of its state check, before any assignment.
Rejects(call) ==
  /\ pc = "idle"
  /\ rejected' = call
  /\ UNCHANGED <<status, eventCount, endEventCount, nextPrintEvent,
                 outputPlugins, sysTime, pc, silentMode, nextPrint,
                 lastError, calendar, invocations, stepOutcome,
                 shutdownRequested>>
  /\ UNCHANGED nonSimVars

\* Simulation::configLoaded
ConfigLoaded ==
  /\ pc = "idle"
  /\ ~ConfigLoadedThrows(status)
  /\ status' = "CONFIG_LOADED"
  /\ UNCHANGED <<eventCount, endEventCount, nextPrintEvent, outputPlugins,
                 sysTime, pc, silentMode, nextPrint, lastError, calendar, invocations, stepOutcome, shutdownRequested>>
  /\ rejected' = "none"
  /\ UNCHANGED nonSimVars

\* Simulation::addOutputPlugin
AddOutputPlugin ==
  /\ pc = "idle"
  /\ ~AddOutputPluginThrows(status)
  /\ Len(outputPlugins) < MaxPlugins
  /\ \E name \in PluginNames : outputPlugins' = Append(outputPlugins, name)
  /\ UNCHANGED <<status, eventCount, endEventCount, nextPrintEvent, sysTime,
                 pc, silentMode, nextPrint, lastError, calendar,
                 invocations, stepOutcome, shutdownRequested>>
  /\ rejected' = "none"
  /\ UNCHANGED nonSimVars

\* Initialisation: schedule(id) for every particle at time zero.
Initialise ==
  /\ pc = "idle"
  /\ status = "CONFIG_LOADED"
  /\ status' = "INITIALISED"
  /\ \E fresh \in FreshPredictions(Particles, sysTime) :
       calendar' = ScheduleAll(calendar, fresh, Particles)
  /\ UNCHANGED <<eventCount, endEventCount, nextPrintEvent, outputPlugins,
                 sysTime, pc, silentMode, nextPrint, lastError,
                 invocations, stepOutcome, shutdownRequested>>
  /\ rejected' = "none"
  /\ UNCHANGED nonSimVars

\* Simulation::simShutdown, called between two runs.
SimShutdown ==
  /\ pc = "idle"
  /\ endEventCount' = ShutdownCount(eventCount)
  /\ nextPrintEvent' = ShutdownCount(eventCount)
  /\ shutdownRequested' = TRUE
  /\ UNCHANGED <<status, eventCount, outputPlugins, sysTime, pc, silentMode,
                 nextPrint, lastError, calendar, invocations,
                 stepOutcome>>
  /\ rejected' = "none"
  /\ UNCHANGED nonSimVars

\* Simulation::runSimulation up to the first test of the loop condition.
RunSimulation ==
  /\ pc = "idle"
  /\ ~RunSimulationThrows(status)
  /\ status' = StatusOnRun(status)
  /\ \E silent \in BOOLEAN : silentMode' = silent
  /\ nextPrint' = eventCount + EventPrintInterval
  /\ lastError' = NoError
  /\ stepOutcome' = "none"
  /\ pc' = "loop"
  /\ UNCHANGED <<eventCount, endEventCount, nextPrintEvent, outputPlugins,
                 sysTime, calendar, invocations, shutdownRequested>>
  /\ rejected' = "none"
  /\ UNCHANGED nonSimVars

\* One pass of the loop body whose call of runNextEvent finds nothing to run:
\* the call returns without touching the calendar, time or event count.
StepTerminated ==
  /\ pc = "loop"
  /\ LoopCond(eventCount, endEventCount)
  /\ invocations < MaxInvocations
  /\ NothingToRun(PeekMinimum(calendar))
  /\ invocations' = invocations + 1
  /\ stepOutcome' = "terminated"
  /\ \/ /\ PeriodicDue(eventCount, nextPrint, silentMode, outputPlugins)
        /\ nextPrint' = eventCount + EventPrintInterval
     \/ /\ ~PeriodicDue(eventCount, nextPrint, silentMode, outputPlugins)
        /\ nextPrint' = nextPrint
  /\ UNCHANGED <<status, eventCount, endEventCount, nextPrintEvent,
                 outputPlugins, sysTime, pc, silentMode, lastError, calendar, shutdownRequested>>
  /\ UNCHANGED rejected
  /\ UNCHANGED nonSimVars

\* One pass of the loop body whose event raises a fault: the handler rethrows
\* and the exception leaves runSimulation.
StepFault ==
  /\ pc = "loop"
  /\ LoopCond(eventCount, endEventCount)
  /\ invocations < MaxInvocations
  /\ ~NothingToRun(PeekMinimum(calendar))
  /\ invocations' = invocations + 1
  /\ stepOutcome' = "fault"
  /\ \E what \in EventFaults(PeekMinimum(calendar)) :
       lastError' = Rethrow(eventCount, what)
  /\ pc' = IF lastError'.raised THEN "idle" ELSE "loop"
  /\ nextPrint' = 0
  /\ UNCHANGED <<status, eventCount, endEventCount, nextPrintEvent,
                 outputPlugins, sysTime, silentMode, calendar,
                 shutdownRequested>>
  /\ UNCHANGED rejected
  /\ UNCHANGED nonSimVars

\* One pass of the loop body whose event is executed: the minimum is fired,
\* its participants are rescheduled at the event's time, the event counter
\* and the current time advance; the event may call simShutdown, before or
\* after the counter advances; then the periodic output, which may throw.
StepEvent ==
  /\ pc = "loop"
  /\ LoopCond(eventCount, endEventCount)
  /\ invocations < MaxInvocations
  /\ ~NothingToRun(PeekMinimum(calendar))
  /\ invocations' = invocations + 1
  /\ stepOutcome' = "event"
  /\ LET rec == PeekMinimum(calendar)
     IN  /\ \E fresh \in FreshPredictions(Participants(rec), rec.time) :
              calendar' = ScheduleAll(Fire(calendar, rec), fresh, Participants(rec))
         /\ sysTime' = rec.time
  /\ eventCount' = eventCount + 1
  /\ \/ UNCHANGED <<endEventCount, nextPrintEvent, shutdownRequested>>
     \/ /\ \E ec \in {eventCount, eventCount + 1} :
             /\ endEventCount' = ShutdownCount(ec)
             /\ nextPrintEvent' = ShutdownCount(ec)
        /\ shutdownRequested' = TRUE
  /\ \/ /\ ~PeriodicDue(eventCount', nextPrint, silentMode, outputPlugins)
        /\ UNCHANGED <<nextPrint, lastError, pc>>
     \/ /\ PeriodicDue(eventCount', nextPrint, silentMode, outputPlugins)
        /\ nextPrint' = eventCount' + EventPrintInterval
        /\ UNCHANGED <<lastError, pc>>
     \/ /\ PeriodicDue(eventCount', nextPrint, silentMode, outputPlugins)
        /\ lastError' = Rethrow(eventCount', PluginFault)
        /\ pc' = IF lastError'.raised THEN "idle" ELSE "loop"
        /\ nextPrint' = 0
  /\ UNCHANGED <<status, outputPlugins, silentMode>>
  /\ UNCHANGED rejected
  /\ UNCHANGED nonSimVars

\* The loop condition fails: runSimulation returns.
LoopExit ==
  /\ pc = "loop"
  /\ ~LoopCond(eventCount, endEventCount)
  /\ pc' = "idle"
  /\ nextPrint' = 0
  /\ UNCHANGED <<status, eventCount, endEventCount, nextPrintEvent,
                 outputPlugins, sysTime, silentMode, lastError, calendar, invocations, stepOutcome, shutdownRequested>>
  /\ UNCHANGED rejected
  /\ UNCHANGED nonSimVars

\* Simulation::configLoaded, called in a status other than START.
ConfigLoadedRejected ==
  /\ ConfigLoadedThrows(status)
  /\ Rejects("configLoaded")

\* Simulation::addOutputPlugin, called once the status is INITIALISED.
AddOutputPluginRejected ==
  /\ AddOutputPluginThrows(status)
  /\ Rejects("addOutputPlugin")

\* Simulation::runSimulation, called in a status it does not start from.
RunSimulationRejected ==
  /\ RunSimulationThrows(status)
  /\ Rejects("runSimulation")

\* Simulation::outputData: every plugin writes its output to the file; no
\* member of the Simulation is assigned.
OutputData ==
  /\ pc = "idle"
  /\ ~OutputDataThrows(status)
  /\ rejected' = "none"
  /\ UNCHANGED <<status, eventCount, endEventCount, nextPrintEvent,
                 outputPlugins, sysTime, pc, silentMode, nextPrint,
                 lastError, calendar, invocations, stepOutcome,
                 shutdownRequested>>
  /\ UNCHANGED nonSimVars

\* Simulation::outputData, called before the status is INITIALISED.
OutputDataRejected ==
  /\ OutputDataThrows(status)
  /\ Rejects("outputData")

Init == InitSim /\ PolyIdle /\ AlgIdle /\ AttrIdle /\ TinkerIdle

Next ==
  \/ ConfigLoaded
  \/ AddOutputPlugin
  \/ Initialise
  \/ SimShutdown
  \/ RunSimulation
  \/ StepTerminated
  \/ StepFault
  \/ StepEvent
  \/ LoopExit
  \/ ConfigLoadedRejected
  \/ AddOutputPluginRejected
  \/ RunSimulationRejected
  \/ OutputData
  \/ OutputDataRejected

Spec == Init /\ [][Next]_vars

(***************************************************************************)
(* The solver as a state machine: Init draws a polynomial of order 0, 1    *)
(* or 2, one action per overload of solve_roots.                           *)
(***************************************************************************)
PolyInputs == UNION {[1..n -> Coeffs] : n \in 1..3}

\* The sign bit of c1 agrees with its value; a zero may carry either sign.
SignBitOK(p, s) ==
  IF Len(p) < 2 THEN s = FALSE
  ELSE /\ (p[2] < 0 => s)
       /\ (p[2] > 0 => ~s)

InitRoots ==
  /\ InitSim
  /\ AlgIdle
  /\ AttrIdle
  /\ TinkerIdle
  /\ f \in PolyInputs
  /\ f1neg \in BOOLEAN
  /\ SignBitOK(f, f1neg)
  /\ rad = 1
  /\ roots = <<>>
  /\ ppc = "input"

CallSolveRoots0 ==
  /\ ppc = "input"
  /\ Order(f) = 0
  /\ roots' = SolveRoots0(f)
  /\ rad' = 1
  /\ ppc' = "solved"
  /\ UNCHANGED <<f, f1neg>>
  /\ UNCHANGED nonRootVars

CallSolveRoots1 ==
  /\ ppc = "input"
  /\ Order(f) = 1
  /\ roots' = SolveRoots1(f)
  /\ rad' = 1
  /\ ppc' = "solved"
  /\ UNCHANGED <<f, f1neg>>
  /\ UNCHANGED nonRootVars

CallSolveRoots2 ==
  /\ ppc = "input"
  /\ Order(f) = 2
  /\ roots' = SolveRoots2(f, f1neg)
  /\ rad' = IF f[3] = 0 THEN 1 ELSE Radicand(Discriminant(f))
  /\ ppc' = "solved"
  /\ UNCHANGED <<f, f1neg>>
  /\ UNCHANGED nonRootVars

NextRoots ==
  \/ CallSolveRoots0
  \/ CallSolveRoots1
  \/ CallSolveRoots2

SpecRoots == InitRoots /\ [][NextRoots]_vars

(***************************************************************************)
(* Polynomial algebra.  Coefficients are integers (doubles holding small   *)
(* integers, on which +, - and * are exact).  A constructor reports the    *)
(* indices of its std::array that it assigns, so that a store outside the  *)
(* Order+1 slots of the array is visible.                                  *)
(***************************************************************************)
Terms == (-MaxTerm)..MaxTerm

\* The polynomials of order n.
PolysOfOrder(n) == [1..(n + 1) -> Terms]

AlgPolys == UNION {PolysOfOrder(n) : n \in 0..MaxOrder}

\* detail::max_order
max_order(N, M) == IF N > M THEN N ELSE M

\* Polynomial(): Base::fill(Real()).
ZeroPolynomial(Ord) == [i \in 1..(Ord + 1) |-> 0]

\* Mutant of MulLoopCond: the inner loop stops one term early.
MulLoopCondStrict(i, j, M) == (j < i) /\ (j <= M)

\* operator*(Polynomial<M>, Polynomial<N>): the inner loop's condition.
MulLoopCond(i, j, M) == (j <= i) /\ (j <= M)

\* operator*(Polynomial<M>, Polynomial<N>): the inner loop's first j.
MulLoopStart(i, N) == IF i > N THEN i - N ELSE 0

\* operator*(Polynomial<M>, Polynomial<N>): the inner loop over j for one i,
\* accumulating into retval[i] (indices i, j are the code's, from zero).
RECURSIVE MulInner(_, _, _, _, _)
MulInner(poly1, poly2, i, j, acc) ==
  IF MulLoopCond(i, j, Order(poly1))
  THEN MulInner(poly1, poly2, i, j + 1,
                acc + poly1[j + 1] * poly2[i - j + 1])
  ELSE acc

\* operator*(Polynomial<M>, Polynomial<N>)
Multiply(poly1, poly2) ==
  [k \in 1..(Order(poly1) + Order(poly2) + 1) |->
     MulInner(poly1, poly2, k - 1, MulLoopStart(k - 1, Order(poly2)),
              ZeroPolynomial(Order(poly1) + Order(poly2))[k])]

\* operator*(Polynomial<N>, r)
MultiplyScalar(poly, r) == [i \in 1..Len(poly) |-> poly[i] * r]

\* operator*(r, Polynomial<N>)
ScalarMultiply(r, poly) == MultiplyScalar(poly, r)

\* Polynomial(const Polynomial<N>&), N <= Order: the coefficients left in
\* the Order+1 slots of the new array.
Promote(poly, Ord) ==
  [i \in 1..(Ord + 1) |-> IF i <= Len(poly) THEN poly[i] ELSE 0]

\* Polynomial(const Polynomial<N>&), N <= Order: the indices the two loops
\* assign, the first for i <= N and the second up to i <= Order + 1.
PromoteWritten(poly, Ord) ==
  {i \in 0..(Ord + 1) : i <= Order(poly)}
    \cup {i \in 0..(Ord + 1) : i > Order(poly) /\ i <= Ord + 1}

\* "Polynomial<max_order(M, N)> retval(poly1)": the copy constructor when
\* poly1 has the order of retval, the promoting constructor otherwise.
RetvalFrom(poly1, Ord) ==
  IF Order(poly1) = Ord THEN poly1 ELSE Promote(poly1, Ord)

\* The indices of retval assigned while it is constructed from poly1.
RetvalWritten(poly1, Ord) ==
  IF Order(poly1) = Ord THEN 0..Ord ELSE PromoteWritten(poly1, Ord)

\* What lies behind the last slot of retval.  The store of Real() at index
\* Order + 1 is outside the array: it lands in unused memory, or in the
\* object laid out next, which can be the second operand.
StrayTargets == {"unused", "poly2"}

\* poly2 as the loop after the construction of retval reads it.
AsReadAfter(poly1, poly2, Ord, stray) ==
  IF (Ord + 1) \in RetvalWritten(poly1, Ord) /\ stray = "poly2"
  THEN [poly2 EXCEPT ![1] = 0]
  ELSE poly2

\* operator+(Polynomial<M>, Polynomial<N>)
Add(poly1, poly2, stray) ==
  LET Ord    == max_order(Order(poly1), Order(poly2))
      retval == RetvalFrom(poly1, Ord)
      read2  == AsReadAfter(poly1, poly2, Ord, stray)
  IN  [i \in 1..(Ord + 1) |->
         IF i <= Len(poly2) THEN retval[i] + read2[i] ELSE retval[i]]

\* operator-(Polynomial<M>, Polynomial<N>)
Subtract(poly1, poly2, stray) ==
  LET Ord    == max_order(Order(poly1), Order(poly2))
      retval == RetvalFrom(poly1, Ord)
      read2  == AsReadAfter(poly1, poly2, Ord, stray)
  IN  [i \in 1..(Ord + 1) |->
         IF i <= Len(poly2) THEN retval[i] - read2[i] ELSE retval[i]]

\* operator+(Polynomial<N>, r)
AddScalar(poly, r) == [poly EXCEPT ![1] = @ + r]

\* operator+(r, Polynomial<N>)
ScalarAdd(r, poly) == AddScalar(poly, r)

\* Polynomial::operator-()
Negate(poly) == [i \in 1..Len(poly) |-> -poly[i]]

\* operator-(r, Polynomial<N>)
ScalarSubtract(r, poly) == [Negate(poly) EXCEPT ![1] = @ + r]

\* operator-(Polynomial<N>, r)
SubtractScalar(poly, r) == [poly EXCEPT ![1] = @ - r]

\* Mutant of DerivativeFactor: multiplies by the index of the result.
DerivativeFactorIndex(i) == i

\* derivative: the factor of retval[i] = f[i+1] * (i+1).
DerivativeFactor(i) == i + 1

\* derivative, with its specialisation for Polynomial<0>.
Derivative(poly) ==
  IF Order(poly) = 0 THEN <<0>>
  ELSE [k \in 1..Order(poly) |-> poly[k + 1] * DerivativeFactor(k - 1)]

\* Mutant of LowerRejects: the check is compiled into every build.
LowerRejectsAlways(poly, dbg) == poly[Len(poly)] # 0

\* Polynomial(const Polynomial<Order+1>&): the check under MAGNET_DEBUG.
LowerRejects(poly, dbg) == dbg /\ poly[Len(poly)] # 0

\* Mutant of ListTooLong: one element more is let through.
ListTooLongByTwo(k, Ord) == k > Ord + 2

\* Polynomial(std::initializer_list<Real>): the length check.
ListTooLong(k, Ord) == k > Ord + 1

\* Polynomial(std::initializer_list<Real>): the copy and the zero fill.
FromList(list, Ord) ==
  [i \in 1..(Ord + 1) |-> IF i <= Len(list) THEN list[i] ELSE 0]

\* x < y on rationals.
RLess(x, y) == x[1] * y[2] < y[1] * x[2]

\* x < y on doubles that hold rationals.  A non-finite operand compares
\* false: the only comparisons made are droot > tmin and droot < tmax, and
\* one of the two is false for +inf, for -inf and for NaN.
QLess(x, y) == x.fin /\ y.fin /\ RLess(x.a, y.a)

\* std::abs
QAbs(x) == IF x.fin /\ x.a[1] < 0 THEN QNeg(x) ELSE x

\* std::max(a, b): (a < b) ? b : a
QMax(x, y) == IF QLess(x, y) THEN y ELSE x

\* Mutant of VertexInside: the stationary point is never looked at.
VertexNever(droot, lo, hi) == FALSE

\* max_abs_val(Polynomial<2>): (droot > tmin) && (droot < tmax)
VertexInside(droot, lo, hi) == QLess(QInt(lo), droot) /\ QLess(droot, QInt(hi))

\* max_abs_val(Polynomial<0>)
MaxAbsVal0(p) == QAbs(QInt(p[1]))

\* max_abs_val(Polynomial<1>)
MaxAbsVal1(p, lo, hi) ==
  QMax(QAbs(Eval(1, p, QInt(lo))), QAbs(Eval(1, p, QInt(hi))))

\* max_abs_val(Polynomial<2>)
MaxAbsVal2(p, lo, hi) ==
  LET droot  == QDiv(1, QNeg(QInt(p[2])), QMul(1, QInt(2), QInt(p[3])))
      retval == QMax(QAbs(Eval(1, p, QInt(lo))), QAbs(Eval(1, p, QInt(hi))))
  IN  IF VertexInside(droot, lo, hi)
      THEN QMax(QAbs(Eval(1, p, droot)), retval)
      ELSE retval

(***************************************************************************)
(* The algebra as a state machine: Init draws an operation and its         *)
(* operands, one action per operator, constructor or function.             *)
(***************************************************************************)
BinaryOps == {"poly*poly", "poly+poly", "poly-poly"}

ScalarOps == {"poly*r", "r*poly", "poly+r", "r+poly", "poly-r", "r-poly"}

\* Pairs of operands whose product has an order within the bound.
OperandPairs ==
  {pair \in AlgPolys \X AlgPolys :
     Order(pair[1]) + Order(pair[2]) <= MaxOrder}

\* Initializer lists of up to one element more than the largest array holds.
InitLists == UNION {[1..k -> Terms] : k \in 0..(MaxOrder + 2)}

\* The inputs an operation does not take.
NoOperands(names) ==
  /\ ("pa" \in names \/ pa = <<0>>)
  /\ ("pb" \in names \/ pb = <<0>>)
  /\ ("sr" \in names \/ sr = 0)
  /\ ("ilist" \in names \/ ilist = <<>>)
  /\ ("target" \in names \/ target = 0)
  /\ ("debug" \in names \/ debug = FALSE)
  /\ ("tmin" \in names \/ (tmin = 0 /\ tmax = 0))

InitAlgebra ==
  /\ InitSim
  /\ PolyIdle
  /\ AttrIdle
  /\ TinkerIdle
  /\ res = <<>>
  /\ thrown = "none"
  /\ written = {}
  /\ apc = "input"
  /\ \/ /\ aop \in BinaryOps
        /\ \E pair \in OperandPairs : pa = pair[1] /\ pb = pair[2]
        /\ NoOperands({"pa", "pb"})
     \/ /\ aop \in ScalarOps
        /\ pa \in AlgPolys
        /\ sr \in Terms
        /\ NoOperands({"pa", "sr"})
     \/ /\ aop = "derivative"
        /\ pa \in AlgPolys
        /\ NoOperands({"pa"})
     \/ /\ aop = "lower"
        /\ pa \in AlgPolys
        /\ Order(pa) >= 1
        /\ debug \in BOOLEAN
        /\ NoOperands({"pa", "debug"})
     \/ /\ aop = "list"
        /\ ilist \in InitLists
        /\ target \in 0..MaxOrder
        /\ NoOperands({"ilist", "target"})
     \/ /\ aop = "promote"
        /\ pa \in AlgPolys
        /\ target \in Order(pa)..MaxOrder
        /\ NoOperands({"pa", "target"})
     \/ /\ aop = "max_abs_val"
        /\ pa \in AlgPolys
        /\ Order(pa) <= 2
        /\ tmin \in (-MaxT)..MaxT
        /\ tmax \in tmin..MaxT
        /\ NoOperands({"pa", "tmin"})

\* The operation returns r, or leaves by exception t, having assigned the
\* indices w of the array it constructs.
Returns(r, t, w) ==
  /\ apc = "input"
  /\ res' = r
  /\ thrown' = t
  /\ written' = w
  /\ apc' = "done"
  /\ UNCHANGED <<aop, pa, pb, sr, ilist, target, debug, tmin, tmax>>
  /\ UNCHANGED <<polyVars, simVars, attrVars, tinkerVars>>

OpMultiply ==
  /\ aop = "poly*poly"
  /\ Returns(Multiply(pa, pb), "none", 0..(Order(pa) + Order(pb)))

OpMultiplyScalar ==
  /\ aop = "poly*r"
  /\ Returns(MultiplyScalar(pa, sr), "none", 0..Order(pa))

OpScalarMultiply ==
  /\ aop = "r*poly"
  /\ Returns(ScalarMultiply(sr, pa), "none", 0..Order(pa))

OpAdd ==
  /\ aop = "poly+poly"
  /\ \E stray \in StrayTargets :
       Returns(Add(pa, pb, stray), "none",
               RetvalWritten(pa, max_order(Order(pa), Order(pb))))

OpSubtract ==
  /\ aop = "poly-poly"
  /\ \E stray \in StrayTargets :
       Returns(Subtract(pa, pb, stray), "none",
               RetvalWritten(pa, max_order(Order(pa), Order(pb))))

OpAddScalar ==
  /\ aop = "poly+r"
  /\ Returns(AddScalar(pa, sr), "none", 0..Order(pa))

OpScalarAdd ==
  /\ aop = "r+poly"
  /\ Returns(ScalarAdd(sr, pa), "none", 0..Order(pa))

OpSubtractScalar ==
  /\ aop = "poly-r"
  /\ Returns(SubtractScalar(pa, sr), "none", 0..Order(pa))

OpScalarSubtract ==
  /\ aop = "r-poly"
  /\ Returns(ScalarSubtract(sr, pa), "none", 0..Order(pa))

OpDerivative ==
  /\ aop = "derivative"
  /\ Returns(Derivative(pa), "none", 0..Order(Derivative(pa)))

\* Polynomial(const Polynomial<Order+1>&)
ConstructLowered ==
  /\ aop = "lower"
  /\ IF LowerRejects(pa, debug)
     THEN Returns(<<>>, "magnet::exception", {})
     ELSE Returns(LowerOrder(pa), "none", 0..(Order(pa) - 1))

\* Polynomial(std::initializer_list<Real>)
ConstructFromList ==
  /\ aop = "list"
  /\ IF ListTooLong(Len(ilist), target)
     THEN Returns(<<>>, "std::length_error", {})
     ELSE Returns(FromList(ilist, target), "none", 0..target)

\* Polynomial(const Polynomial<N>&), N <= Order
ConstructPromoted ==
  /\ aop = "promote"
  /\ Returns(Promote(pa, target), "none", PromoteWritten(pa, target))

CallMaxAbsVal0 ==
  /\ aop = "max_abs_val"
  /\ Order(pa) = 0
  /\ Returns(MaxAbsVal0(pa), "none", {})

CallMaxAbsVal1 ==
  /\ aop = "max_abs_val"
  /\ Order(pa) = 1
  /\ Returns(MaxAbsVal1(pa, tmin, tmax), "none", {})

CallMaxAbsVal2 ==
  /\ aop = "max_abs_val"
  /\ Order(pa) = 2
  /\ Returns(MaxAbsVal2(pa, tmin, tmax), "none", {})

NextAlgebra ==
  \/ OpMultiply
  \/ OpMultiplyScalar
  \/ OpScalarMultiply
  \/ OpAdd
  \/ OpSubtract
  \/ OpAddScalar
  \/ OpScalarAdd
  \/ OpSubtractScalar
  \/ OpScalarSubtract
  \/ OpDerivative
  \/ ConstructLowered
  \/ ConstructFromList
  \/ ConstructPromoted
  \/ CallMaxAbsVal0
  \/ CallMaxAbsVal1
  \/ CallMaxAbsVal2

SpecAlgebra == InitAlgebra /\ [][NextAlgebra]_vars

(***************************************************************************)
(* coil::Attribute: the host's buffer of N elements of _components floats  *)
(* each, its upload to OpenGL and the statistics taken at the upload.      *)
(* Values are integers (floats holding small integers).                    *)
(***************************************************************************)
Values == 0..MaxValue

\* Attribute::num_elements
num_elements(buf, comps) == Len(buf) \div comps

\* std::min(a, b): (b < a) ? b : a
StdMin(a, b) == IF b < a THEN b ELSE a

\* std::max(a, b): (a < b) ? b : a
StdMax(a, b) == IF a < b THEN b ELSE a

\* "std::vector<GLfloat>(begin(), begin() + components())"
FirstElement(buf, comps) == SubSeq(buf, 1, comps)

\* initGLData: the body of the inner loop for the float at index k of the
\* buffer, k = i * comps + j: _minVals[j] is assigned first, and the
\* assignment of _maxVals[j] reads _minVals[j].
StatsStep(mm, buf, comps, k) ==
  LET j      == (k % comps) + 1
      newMin == StdMin(mm.min[j], buf[k + 1])
  IN  [min |-> [mm.min EXCEPT ![j] = newMin],
       max |-> [mm.max EXCEPT ![j] = StdMax(newMin, buf[k + 1])]]

\* initGLData: the two loops, from element 1 to num_elements() - 1 and over
\* the components of each, in the order they visit the buffer.
RECURSIVE StatsLoop(_, _, _, _)
StatsLoop(mm, buf, comps, k) ==
  IF k >= num_elements(buf, comps) * comps THEN mm
  ELSE StatsLoop(StatsStep(mm, buf, comps, k), buf, comps, k + 1)

\* initGLData: _minVals and _maxVals after the loops.
Statistics(buf, comps) ==
  StatsLoop([min |-> FirstElement(buf, comps),
             max |-> FirstElement(buf, comps)], buf, comps, comps)

\* Attribute::initGLData
RunInitGLData ==
  /\ dataUpdates < MaxUpdates
  /\ glDataSize' = Len(buffer)
  /\ dataUpdates' = dataUpdates + 1
  /\ minVals' = Statistics(buffer, components).min
  /\ maxVals' = Statistics(buffer, components).max

\* The Attribute is constructed with at least one element and the host has
\* written its data into the inherited container.
InitAttr ==
  /\ InitSim
  /\ PolyIdle
  /\ AlgIdle
  /\ TinkerIdle
  /\ components \in 1..MaxComponents
  /\ \E N \in 1..MaxElements : buffer \in [1..(N * components) -> Values]
  /\ minVals = <<>>
  /\ maxVals = <<>>
  /\ dataUpdates = 0
  /\ glDataSize = 0
  /\ queuedTasks = 0

\* Attribute::flagNewData: queues a call of initGLData in the GL context.
FlagNewData ==
  /\ queuedTasks + dataUpdates < MaxUpdates
  /\ queuedTasks' = queuedTasks + 1
  /\ UNCHANGED <<components, buffer, minVals, maxVals, dataUpdates,
                 glDataSize>>
  /\ UNCHANGED <<polyVars, simVars, algVars, tinkerVars>>

\* The GL thread runs a queued task: Attribute::initGLData.
InitGLData ==
  /\ queuedTasks > 0
  /\ queuedTasks' = queuedTasks - 1
  /\ RunInitGLData
  /\ UNCHANGED <<components, buffer>>
  /\ UNCHANGED <<polyVars, simVars, algVars, tinkerVars>>

\* Attribute::bindAttribute: "if (!_glData.size()) initGLData()".
BindAttribute ==
  /\ IF glDataSize = 0
     THEN RunInitGLData
     ELSE UNCHANGED <<minVals, maxVals, dataUpdates, glDataSize>>
  /\ UNCHANGED <<components, buffer, queuedTasks>>
  /\ UNCHANGED <<polyVars, simVars, algVars, tinkerVars>>

NextAttr ==
  \/ FlagNewData
  \/ InitGLData
  \/ BindAttribute

SpecAttr == InitAttr /\ [][NextAttr]_vars

(***************************************************************************)
(* OPTinkerXYZ: the output plugin that writes one numbered .xyz frame per  *)
(* call of printFileImage, from initialise() and from every ticker().      *)
(***************************************************************************)
\* printFileImage: "if (frameCount > max_frame_count) return;".
FrameLimitReached(count, limit) == count > limit

\* printFileImage: the only assignment of frameCount is the "frameCount++"
\* in the name of the .r3d file, inside "#ifdef DYNAMO_GSL".
NextFrameCount(count, gsl) == IF gsl THEN count + 1 ELSE count

\* How a call of printFileImage that passes the frame limit ends: the frame
\* is written; or asprintf or the opening of the .xyz file fails and the
\* call throws before anything is written; or, with DYNAMO_GSL, the .xyz
\* file is written and the call throws on the .r3d file.
PrintOutcomes(gsl) ==
  {"written", "xyz failed"} \cup (IF gsl THEN {"r3d failed"} ELSE {})

\* OPTinkerXYZ::printFileImage
PrintFileImage ==
  IF FrameLimitReached(frameCount, max_frame_count)
  THEN UNCHANGED <<frameCount, framesWritten>>
  ELSE \E outcome \in PrintOutcomes(gslBuild) :
         IF outcome = "xyz failed"
         THEN UNCHANGED <<frameCount, framesWritten>>
         ELSE /\ framesWritten' = Append(framesWritten, frameCount)
              /\ frameCount' = NextFrameCount(frameCount, gslBuild)

\* OPTinkerXYZ::OPTinkerXYZ: frameCount(0), then the options of the XML node.
InitTinker ==
  /\ InitSim
  /\ PolyIdle
  /\ AlgIdle
  /\ AttrIdle
  /\ frameCount = 0
  /\ max_frame_count \in 0..MaxFrames
  /\ fileOutput \in BOOLEAN
  /\ gslBuild \in BOOLEAN
  /\ framesWritten = <<>>
  /\ tickerCalls = 0
  /\ tpc = "constructed"

\* OPTinkerXYZ::initialise: printFileImage(), whatever fileOutput is.
TinkerInitialise ==
  /\ tpc = "constructed"
  /\ tpc' = "ticking"
  /\ PrintFileImage
  /\ UNCHANGED <<max_frame_count, fileOutput, gslBuild, tickerCalls>>
  /\ UNCHANGED <<polyVars, simVars, algVars, attrVars>>

\* OPTinkerXYZ::ticker: "if (fileOutput) printFileImage();".
Ticker ==
  /\ tpc = "ticking"
  /\ tickerCalls < MaxTickers
  /\ tickerCalls' = tickerCalls + 1
  /\ IF fileOutput THEN PrintFileImage ELSE UNCHANGED <<frameCount, framesWritten>>
  /\ UNCHANGED <<max_frame_count, fileOutput, gslBuild, tpc>>
  /\ UNCHANGED <<polyVars, simVars, algVars, attrVars>>

NextTinker ==
  \/ TinkerInitialise
  \/ Ticker

SpecTinker == InitTinker /\ [][NextTinker]_vars

(***************************************************************************)
(* Properties of the root solvers.                                         *)
(***************************************************************************)
\* r is the rational n/d, stated by cross-multiplication (d # 0).
IsRatio(r, n, d) ==
  /\ r.fin
  /\ RIsZero(r.b)
  /\ r.a[1] * d = n * r.a[2]

\* C1: an order-2 polynomial with c2 = 0 is solved as the order-1 polynomial
\* (c0, c1): the single root -c0/c1 when c1 # 0, no root when c1 = 0 too; the
\* result is the one the order-1 solver gives for (c0, c1).
C1_DegenerateQuadratic ==
  (ppc = "solved" /\ Order(f) = 2 /\ f[3] = 0) =>
    /\ roots = SolveRoots1(<<f[1], f[2]>>)
    /\ f[2] # 0 => (Len(roots) = 1 /\ IsRatio(roots[1], -f[1], f[2]))
    /\ f[2] = 0 => roots = <<>>

C1_Witness ==
  /\ ppc = "solved" /\ Order(f) = 2 /\ f[3] = 0 /\ f[2] # 0 /\ f[1] # 0
  /\ Len(roots) = 1

\* C2: for c2 # 0 and D = c1*c1 - 4*c2*c0 the solver returns no root when
\* D < 0, the one root -c1/(2*c2) when D = 0 and two roots when D > 0; it
\* never returns more than two roots.
C2_QuadraticCases ==
  (ppc = "solved" /\ Order(f) = 2) =>
    /\ Len(roots) <= 2
    /\ f[3] # 0 =>
         LET D == f[2] * f[2] - 4 * f[3] * f[1]
         IN  /\ D < 0 => Len(roots) = 0
             /\ D = 0 => (Len(roots) = 1 /\ IsRatio(roots[1], -f[2], 2 * f[3]))
             /\ D > 0 => Len(roots) = 2

C2_Witness ==
  /\ ppc = "solved" /\ Order(f) = 2 /\ f[3] # 0 /\ f[2] # 0
  /\ f[2] * f[2] - 4 * f[3] * f[1] = 0
  /\ Len(roots) = 1

\* C3: for c2 # 0 and D > 0 the two roots satisfy root1*root2 = c0/c2 and
\* root1 + root2 = -c1/c2, with root1 = -(c1 + sign(c1)*sqrt(D))/(2*c2), never
\* zero, and root2 = c0/(c2*root1); sign(c1) is the sign bit of c1.
C3_Vieta ==
  (ppc = "solved" /\ Order(f) = 2 /\ f[3] # 0
     /\ f[2] * f[2] - 4 * f[3] * f[1] > 0) =>
    LET D  == f[2] * f[2] - 4 * f[3] * f[1]
        r1 == roots[1]
        r2 == roots[2]
    IN  /\ Len(roots) = 2
        /\ r1.fin /\ r2.fin
        /\ ~QIsZero(r1)
        /\ QMul(rad, r1, r2) = QRat(RNorm(f[1], f[3]))
        /\ QAdd(r1, r2) = QRat(RNorm(-f[2], f[3]))
        /\ QAdd(QMul(rad, r1, QInt(2 * f[3])), QInt(f[2]))
             = (IF f1neg THEN QSqrt(D) ELSE QNeg(QSqrt(D)))
        /\ QMul(rad, QMul(rad, r2, QInt(f[3])), r1) = QInt(f[1])

\* Two irrational roots of a quadratic with c1 = 0 stored as negative zero.
C3_Witness ==
  /\ ppc = "solved" /\ Order(f) = 2 /\ f[3] # 0
  /\ f[2] = 0 /\ f1neg
  /\ Len(roots) = 2 /\ rad # 1

\* C4: every value returned by solve_roots for a polynomial of order 0, 1 or
\* 2 is a root: operator() evaluates the polynomial to 0 there.
C4_RootsAreRoots ==
  ppc = "solved" =>
    \A i \in 1..Len(roots) : QIsZero(Eval(rad, f, roots[i]))

C4_Witness ==
  /\ ppc = "solved" /\ Order(f) = 2 /\ f[3] > 1 /\ f[2] # 0 /\ f[1] # 0
  /\ Len(roots) = 2 /\ rad # 1
  /\ QIsZero(Eval(rad, f, roots[2]))

\* C5: the order-1 solver returns the one root -c0/c1 when c1 # 0 and none
\* when c1 = 0; the order-0 solver returns none, whatever the constant.
C5_LinearAndConstant ==
  ppc = "solved" =>
    /\ Order(f) = 1 /\ f[2] # 0 =>
         (Len(roots) = 1 /\ IsRatio(roots[1], -f[1], f[2]))
    /\ Order(f) = 1 /\ f[2] = 0 => roots = <<>>
    /\ Order(f) = 0 => roots = <<>>

C5_Witness ==
  /\ ppc = "solved" /\ Order(f) = 1 /\ f[2] # 0 /\ f[1] # 0
  /\ Len(roots) = 1 /\ roots[1].a[2] # 1

(***************************************************************************)
(* Properties of the driver loop and the calendar.                         *)
(***************************************************************************)
\* C6: the times of the successively executed events are non-decreasing and
\* the current simulation time never decreases: every executed event is the
\* calendar's minimum and its time is at least the time before it.
C6_MonotonicTime ==
  [][/\ sysTime' >= sysTime
     /\ eventCount' # eventCount =>
          /\ sysTime' = PeekMinimum(calendar).time
          /\ \A r \in calendar' : r.time >= sysTime']_vars

C6_Witness ==
  /\ stepOutcome = "event" /\ eventCount = MaxEvents
  /\ sysTime > 0 /\ sysTime = Horizon

\* C7: once simShutdown has set endEventCount and nextPrintEvent to the
\* current eventCount, runNextEvent is not invoked again: it is only invoked
\* where eventCount < endEventCount, and only the event that was executing
\* completes.
C7_ShutdownStops ==
  [][/\ shutdownRequested => invocations' = invocations
     /\ shutdownRequested' =>
          /\ endEventCount' <= eventCount'
          /\ nextPrintEvent' = endEventCount'
     /\ invocations' # invocations => eventCount < endEventCount]_vars

\* A run that a shutdown requested during its first event ended early.
C7_Witness ==
  /\ shutdownRequested /\ pc = "idle" /\ stepOutcome = "event"
  /\ eventCount = 1 /\ eventCount < MaxEvents
  /\ ~lastError.raised /\ status = "PRODUCTION"

\* C8 as stated: a fault raised while executing an event aborts the run with
\* a diagnostic that identifies the event's time, kind and participants.
C8_DiagnosticNamesEvent ==
  stepOutcome = "fault" =>
    /\ pc = "idle"
    /\ lastError.raised
    /\ lastError.what.time = PeekMinimum(calendar).time
    /\ lastError.what.kind = PeekMinimum(calendar).kind
    /\ lastError.what.ids = Participants(PeekMinimum(calendar))

\* C8, amended: a fault raised while executing an event aborts the run with
\* a diagnostic that holds the event count and the fault's own message; the
\* exception leaves runSimulation, so that call invokes runNextEvent no more.
C8_FaultAborts ==
  stepOutcome = "fault" =>
    /\ pc = "idle"
    /\ lastError.raised
    /\ lastError.eventCount = eventCount
    /\ lastError.what \in EventFaults(PeekMinimum(calendar))

C8_Witness ==
  /\ stepOutcome = "fault" /\ pc = "idle" /\ lastError.raised
  /\ lastError.what = OpaqueFault /\ eventCount = 1

C10_OneRecordPerParticle ==
  StatusRank(status) >= StatusRank("INITIALISED") =>
    /\ \A id \in Particles : Cardinality({r \in calendar : r.id = id}) = 1
    /\ \A r \in calendar : r.id \in Particles

\* After a collision has fired and both participants were rescheduled.
C10_Witness ==
  /\ stepOutcome = "event" /\ eventCount = MaxEvents
  /\ \E r \in calendar : r.kind = "collision" /\ r.time = sysTime
  /\ \E r \in calendar : r.kind = "none"

(***************************************************************************)
(* Properties of the polynomial algebra.                                   *)
(***************************************************************************)
\* The sum of fn[x] over the domain of fn.
RECURSIVE SumOf(_)
SumOf(fn) ==
  IF DOMAIN fn = {} THEN 0
  ELSE LET x == CHOOSE x \in DOMAIN fn : TRUE
       IN  fn[x] + SumOf([y \in DOMAIN fn \ {x} |-> fn[y]])

\* Coefficient k of the product: a[j]*b[k-j] summed over every j with
\* 0 <= j <= M and 0 <= k-j <= N.
Convolution(a, b, k) ==
  SumOf([j \in {j \in 0..Order(a) : 0 <= k - j /\ k - j <= Order(b)} |->
           a[j + 1] * b[k - j + 1]])

\* C11: the product of polynomials of orders M and N has order M+N and its
\* coefficient k is the full convolution sum; the product with a scalar
\* scales every coefficient.
C11_FullConvolution ==
  apc = "done" =>
    /\ aop = "poly*poly" =>
         /\ Order(res) = Order(pa) + Order(pb)
         /\ \A k \in 0..(Order(pa) + Order(pb)) :
              res[k + 1] = Convolution(pa, pb, k)
    /\ aop \in {"poly*r", "r*poly"} =>
         /\ Order(res) = Order(pa)
         /\ \A i \in 0..Order(pa) : res[i + 1] = sr * pa[i + 1]

\* Two first-order operands whose middle coefficient collects two terms.
C11_Witness ==
  /\ apc = "done" /\ aop = "poly*poly"
  /\ Order(pa) = 1 /\ Order(pb) = 1
  /\ pa[1] * pb[2] # 0 /\ pa[2] * pb[1] # 0
  /\ res[2] = pa[1] * pb[2] + pa[2] * pb[1]

\* Coefficient i of a polynomial, zero beyond its order.
CoeffOrZero(p, i) == IF i <= Order(p) THEN p[i + 1] ELSE 0

\* C12: the sum (difference) of polynomials of orders M and N, whichever is
\* larger, has order max(M, N) and coefficient i equal to a[i] + b[i]
\* (a[i] - b[i]), a missing coefficient counting as zero; a scalar operand
\* enters coefficient 0 only.
C12_AddSubtract ==
  apc = "done" =>
    /\ aop \in {"poly+poly", "poly-poly"} =>
         /\ Order(res) = max_order(Order(pa), Order(pb))
         /\ \A i \in 0..Order(res) :
              res[i + 1] = IF aop = "poly+poly"
                           THEN CoeffOrZero(pa, i) + CoeffOrZero(pb, i)
                           ELSE CoeffOrZero(pa, i) - CoeffOrZero(pb, i)
    /\ aop \in {"poly+r", "r+poly"} => res = [pa EXCEPT ![1] = pa[1] + sr]
    /\ aop = "poly-r" => res = [pa EXCEPT ![1] = pa[1] - sr]
    /\ aop = "r-poly" =>
         res = [i \in 1..Len(pa) |-> IF i = 1 THEN sr - pa[1] ELSE -pa[i]]

\* C13: the derivative of an order-N polynomial, N >= 1, has order N-1 and
\* coefficient i equal to (i+1)*f[i+1]; the derivative of an order-0
\* polynomial is the order-0 zero polynomial, and so is its derivative.
C13_Derivative ==
  (apc = "done" /\ aop = "derivative") =>
    IF Order(pa) >= 1
    THEN /\ Order(res) = Order(pa) - 1
         /\ \A i \in 0..(Order(pa) - 1) : res[i + 1] = (i + 1) * pa[i + 2]
    ELSE /\ res = <<0>>
         /\ Derivative(res) = <<0>>

\* A second-order polynomial whose leading coefficient is doubled.
C13_Witness ==
  /\ apc = "done" /\ aop = "derivative"
  /\ Order(pa) = 2 /\ pa[3] # 0
  /\ res = <<pa[2], 2 * pa[3]>>

\* The rationals of [lo, hi] with a denominator up to 2*MaxTerm: the ends
\* of the interval and, whenever it lies in the interval, the stationary
\* point -c1/(2*c2) of every second-order polynomial of the bound.
GridPoints(lo, hi) ==
  {t \in {RNorm(n, d) : n \in (lo * 2 * MaxTerm)..(hi * 2 * MaxTerm),
                        d \in 1..(2 * MaxTerm)} :
     ~RLess(t, RInt(lo)) /\ ~RLess(RInt(hi), t)}

\* |p(t)| as a rational.
AbsAt(p, t) == QAbs(Eval(1, p, QRat(t))).a

\* The larger of |p(lo)| and |p(hi)|.
EndpointMax(p, lo, hi) ==
  IF RLess(AbsAt(p, RInt(lo)), AbsAt(p, RInt(hi)))
  THEN AbsAt(p, RInt(hi)) ELSE AbsAt(p, RInt(lo))

\* The stationary point of a second-order polynomial lies strictly inside.
StationaryInside(p, lo, hi) ==
  /\ p[3] # 0
  /\ RLess(RInt(lo), RNorm(-p[2], 2 * p[3]))
  /\ RLess(RNorm(-p[2], 2 * p[3]), RInt(hi))

\* C14: for a polynomial of order 0, 1 or 2 and tmin <= tmax, max_abs_val
\* is the largest |f(t)| on [tmin, tmax]: no point of the interval exceeds
\* it and some point attains it; with the stationary point outside the
\* interval, or c2 = 0, it is the larger of the two endpoint values.
C14_MaxAbsVal ==
  (apc = "done" /\ aop = "max_abs_val") =>
    /\ res.fin
    /\ res.b = RZero
    /\ \A t \in GridPoints(tmin, tmax) : ~RLess(res.a, AbsAt(pa, t))
    /\ \E t \in GridPoints(tmin, tmax) : res.a = AbsAt(pa, t)
    /\ (Order(pa) = 2 /\ ~StationaryInside(pa, tmin, tmax)) =>
         res.a = EndpointMax(pa, tmin, tmax)

\* A parabola whose stationary value exceeds both endpoint values.
C14_Witness ==
  /\ apc = "done" /\ aop = "max_abs_val"
  /\ Order(pa) = 2
  /\ StationaryInside(pa, tmin, tmax)
  /\ RLess(EndpointMax(pa, tmin, tmax), res.a)

\* C15, as stated: lowering the order is accepted only when the dropped
\* leading coefficient is zero, and rejected with an error otherwise; when
\* accepted, coefficients 0..Order are preserved.
C15_LoweringRejectsNonZero ==
  (apc = "done" /\ aop = "lower") =>
    /\ pa[Len(pa)] # 0 => thrown # "none"
    /\ thrown = "none" =>
         /\ pa[Len(pa)] = 0
         /\ res = [i \in 1..(Len(pa) - 1) |-> pa[i]]

\* C15, amended: lowering the order is rejected only in a build that
\* defines MAGNET_DEBUG, and there exactly when the dropped leading
\* coefficient is non-zero; every other construction is accepted, dropping
\* the leading coefficient whatever it is and preserving coefficients
\* 0..Order.
C15_LoweringChecksInDebugOnly ==
  (apc = "done" /\ aop = "lower") =>
    /\ thrown # "none" <=> (debug /\ pa[Len(pa)] # 0)
    /\ thrown # "none" => thrown = "magnet::exception" /\ res = <<>>
    /\ thrown = "none" =>
         /\ Order(res) = Order(pa) - 1
         /\ \A i \in 0..Order(res) : res[i + 1] = pa[i + 1]

\* A non-zero leading coefficient dropped without an error.
C15_Witness ==
  /\ apc = "done" /\ aop = "lower"
  /\ ~debug
  /\ pa[Len(pa)] # 0
  /\ thrown = "none"
  /\ res = SubSeq(pa, 1, Len(pa) - 1)

(***************************************************************************)
(* Properties of the Simulation's lifecycle.                               *)
(***************************************************************************)
\* C16: runSimulation starts from INITIALISED or PRODUCTION only: called in
\* another status it leaves by an error, runs no event and keeps the
\* status; accepted, it sets the status to PRODUCTION before the first
\* event is executed.
C16_RunOnlyWhenInitialised ==
  [][/\ rejected' = "runSimulation" =>
          /\ status \notin {"INITIALISED", "PRODUCTION"}
          /\ status' = status
          /\ pc' = "idle"
          /\ invocations' = invocations
          /\ eventCount' = eventCount
     /\ (pc = "idle" /\ pc' = "loop") =>
          /\ status \in {"INITIALISED", "PRODUCTION"}
          /\ status' = "PRODUCTION"
          /\ invocations' = invocations
          /\ eventCount' = eventCount
     /\ (invocations' # invocations \/ eventCount' # eventCount) =>
          status = "PRODUCTION"]_vars

\* runSimulation refused after the configuration was loaded, nothing run.
C16_Witness ==
  /\ rejected = "runSimulation"
  /\ status = "CONFIG_LOADED"
  /\ pc = "idle"
  /\ invocations = 0

\* C17: whatever calls of configLoaded, addOutputPlugin, runSimulation,
\* outputData and simShutdown are made, the status never moves backwards in
\* START < CONFIG_LOADED < INITIALISED < PRODUCTION; the status becomes
\* CONFIG_LOADED from START only; the plugin list changes only before the
\* status is INITIALISED; and a call refused with an error leaves the
\* status and the plugin list as they were.
C17_StatusNeverMovesBack ==
  [][/\ StatusRank(status') >= StatusRank(status)
     /\ StatusRank(status') <= StatusRank("PRODUCTION")
     /\ (status' = "CONFIG_LOADED" /\ status # "CONFIG_LOADED") =>
          status = "START"
     /\ outputPlugins' # outputPlugins =>
          StatusRank(status) < StatusRank("INITIALISED")
     /\ rejected' = "configLoaded" => status # "START"
     /\ rejected' = "addOutputPlugin" =>
          StatusRank(status) >= StatusRank("INITIALISED")
     /\ rejected' # "none" =>
          /\ status' = status
          /\ outputPlugins' = outputPlugins]_vars

\* configLoaded and addOutputPlugin have both been refused in PRODUCTION,
\* with a plugin in the list.
C17_Witness ==
  /\ status = "PRODUCTION"
  /\ pc = "idle"
  /\ rejected = "configLoaded"
  /\ Len(outputPlugins) > 0
  /\ eventCount > 0

C19_PromotionStaysInBounds ==
  (apc = "done" /\ aop = "promote") =>
    /\ Order(res) = target
    /\ \A i \in 0..target :
         res[i + 1] = IF i <= Order(pa) THEN pa[i + 1] ELSE 0
    /\ \A i \in written : i <= target

(***************************************************************************)
(* Properties of coil::Attribute.                                          *)
(***************************************************************************)
\* The values of component j (from zero) over all elements of the buffer.
ComponentValues(buf, comps, j) ==
  {buf[i * comps + j + 1] : i \in 0..(num_elements(buf, comps) - 1)}

\* C20: a run of initGLData on an attribute of at least one element leaves
\* in minVals()[j] the minimum and in maxVals()[j] the maximum of component
\* j over all elements, for every component j, and raises the update
\* counter by exactly one.
C20_MinMaxOfEveryComponent ==
  [][dataUpdates' # dataUpdates =>
       /\ dataUpdates' = dataUpdates + 1
       /\ Len(minVals') = components
       /\ Len(maxVals') = components
       /\ \A j \in 0..(components - 1) :
            /\ minVals'[j + 1] \in ComponentValues(buffer, components, j)
            /\ maxVals'[j + 1] \in ComponentValues(buffer, components, j)
            /\ \A v \in ComponentValues(buffer, components, j) :
                 minVals'[j + 1] <= v /\ v <= maxVals'[j + 1]]_vars

(***************************************************************************)
(* Properties of the TinkerXYZ output plugin.                              *)
(***************************************************************************)
\* C21: over any calls of printFileImage, from initialise and the tickers,
\* a call that writes a frame raises frameCount by one, so that the frame
\* carries a number above that of every frame written before and none is
\* overwritten; no frame is written once frameCount exceeds
\* max_frame_count, hence at most max_frame_count + 1 frames in total.
C21_FramesNumberedOnce ==
  [][/\ framesWritten' # framesWritten =>
          /\ frameCount' = frameCount + 1
          /\ framesWritten' = Append(framesWritten, frameCount)
          /\ \A i \in 1..Len(framesWritten) : framesWritten[i] < frameCount
     /\ frameCount > max_frame_count => framesWritten' = framesWritten
     /\ Len(framesWritten') <= max_frame_count + 1]_vars

====
